---- MODULE Spec2Model ----
(***************************************************************************)
(* Model of clausewitz-script-parser: the escape codec (string_utils.rs),   *)
(* the localisation value round trip (localisation.rs) and the script       *)
(* parser / serializer (parser.rs).                                         *)
(*                                                                          *)
(* A Rust String / &str is a sequence of bytes (0..255) holding valid       *)
(* UTF-8; a byte index is 0-based as in the source, a TLA+ sequence index   *)
(* is 1-based.  A panic of the Rust code (unwrap on Err, slicing a str off  *)
(* a char boundary) is the result [t |-> "Panic"].                          *)
(***************************************************************************)
EXTENDS Integers, Sequences, FiniteSets, TLC

VARIABLES
    cop, cin, cout,                         \* escape codec: operation, input, result
    dop, din, dout,                         \* date heuristic / date formatting
    wpc, arr, indent, rendered, idx, line, out,     \* the soft-wrap loop of an Array
    lines, pending,          \* history: the elements of each line written, of the pending line
    pc, text, tree, result, round, canon,   \* parse_str / serialize_file pipeline
    spc, snode, sk, scan, sval              \* the scan of parse_block over a brace group

codecVars == <<cop, cin, cout>>
dateVars  == <<dop, din, dout>>
wrapVars  == <<wpc, arr, indent, rendered, idx, line, out, lines, pending>>
pipeVars  == <<pc, text, tree, result, round, canon>>
scanVars  == <<spc, snode, sk, scan, sval>>
vars      == <<cop, cin, cout, dop, din, dout,
               wpc, arr, indent, rendered, idx, line, out, lines, pending,
               pc, text, tree, result, round, canon,
               spc, snode, sk, scan, sval>>

----------------------------------------------------------------------------
(* Bytes and strings                                                        *)

\* The ASCII code of a one-character literal of the source (b'\\', '"', ...).
B(c) ==
    CASE c = "\t" -> 9   [] c = "\n" -> 10  [] c = "\r" -> 13  [] c = " " -> 32
      [] c = "\"" -> 34  [] c = "#" -> 35   [] c = "+" -> 43   [] c = "-" -> 45
      [] c = "." -> 46   [] c = "0" -> 48   [] c = "1" -> 49   [] c = "2" -> 50
      [] c = "3" -> 51   [] c = "4" -> 52   [] c = "5" -> 53   [] c = "6" -> 54
      [] c = "7" -> 55   [] c = "8" -> 56   [] c = "9" -> 57   [] c = ":" -> 58
      [] c = "<" -> 60
      [] c = "=" -> 61   [] c = ">" -> 62   [] c = "\\" -> 92  [] c = "a" -> 97
      [] c = "b" -> 98   [] c = "c" -> 99   [] c = "e" -> 101  [] c = "k" -> 107
      [] c = "n" -> 110  [] c = "o" -> 111  [] c = "r" -> 114  [] c = "s" -> 115
      [] c = "t" -> 116  [] c = "v" -> 118  [] c = "x" -> 120  [] c = "y" -> 121
      [] c = "{" -> 123  [] c = "}" -> 125

\* A string literal of the source, written as the tuple of its characters.
Bytes(cs) == [i \in 1..Len(cs) |-> B(cs[i])]

\* The concatenation of a sequence of strings.
RECURSIVE Concat(_)
Concat(ss) == IF ss = <<>> THEN <<>> ELSE Head(ss) \o Concat(Tail(ss))

\* The text of a variant that writes no indentation.
Repeat_None(b, n) == <<>>

\* " ".repeat(n)
Repeat(b, n) == [i \in 1..n |-> b]

\* str::find(ch) for an ASCII ch: the 0-based index of the first such byte, -1 for None.
Find(s, b) ==
    IF \E i \in 1..Len(s) : s[i] = b
    THEN (CHOOSE i \in 1..Len(s) : s[i] = b /\ \A j \in 1..(i - 1) : s[j] # b) - 1
    ELSE -1

\* str::is_char_boundary(i): 0 and len are boundaries, else the byte at i is
\* no UTF-8 continuation byte (0x80..0xBF).
is_char_boundary(s, i) ==
    \/ i = 0
    \/ i = Len(s)
    \/ i > 0 /\ i < Len(s) /\ ~(s[i + 1] >= 128 /\ s[i + 1] <= 191)

\* &s[lo..hi] panics unless lo <= hi <= len and both are char boundaries.
CanSlice(s, lo, hi) ==
    lo <= hi /\ hi <= Len(s) /\ is_char_boundary(s, lo) /\ is_char_boundary(s, hi)

Slice(s, lo, hi) == SubSeq(s, lo + 1, hi)

\* String::push(b as char): the UTF-8 encoding of the code point U+00b.
PushByteAsChar(b) ==
    IF b < 128 THEN <<b>> ELSE <<192 + (b \div 64), 128 + (b % 64)>>

Ok(v) == [t |-> "Ok", v |-> v]
Panic == [t |-> "Panic"]

----------------------------------------------------------------------------
(* string_utils.rs                                                          *)

\* The table lacking the entry of the backslash itself.
ESCAPE_SEQUENCES_NoBackslash ==
    << <<B("\""), Bytes(<<"\\", "\"">>)>>,
       <<B("\n"), Bytes(<<"\\", "n">>)>>,
       <<B("\r"), Bytes(<<"\\", "r">>)>>,
       <<B("\t"), Bytes(<<"\\", "t">>)>> >>

ESCAPE_SEQUENCES ==
    << <<B("\\"), Bytes(<<"\\", "\\">>)>>,
       <<B("\""), Bytes(<<"\\", "\"">>)>>,
       <<B("\n"), Bytes(<<"\\", "n">>)>>,
       <<B("\r"), Bytes(<<"\\", "r">>)>>,
       <<B("\t"), Bytes(<<"\\", "t">>)>> >>

ESCAPE_BYTES == {B("\\"), B("\""), B("\n"), B("\r"), B("\t")}

\* Option<char>: <<>> is None, <<ch>> is Some(ch).
unescape_char(byte) ==
    CASE byte = B("\"") -> <<B("\"")>>
      [] byte = B("\\") -> <<B("\\")>>
      [] byte = B("n")  -> <<B("\n")>>
      [] byte = B("r")  -> <<B("\r")>>
      [] byte = B("t")  -> <<B("\t")>>
      [] OTHER          -> <<>>

\* The while-let loop of unescape_string, from the state (out, rest).
RECURSIVE unescape_loop(_, _)
unescape_loop(o, rest) ==
    LET pos == Find(rest, B("\\")) IN
    IF pos = -1 THEN Ok(o \o rest)
    ELSE IF ~CanSlice(rest, 0, pos) \/ ~CanSlice(rest, pos + 1, Len(rest)) THEN Panic
    ELSE
      LET o1    == o \o Slice(rest, 0, pos)
          after == Slice(rest, pos + 1, Len(rest))
      IN
      IF after = <<>> THEN Ok(Append(o1, B("\\")))
      ELSE
        LET b  == after[1]
            ch == unescape_char(b)
            o2 == IF ch # <<>> THEN o1 \o ch
                  ELSE Append(o1, B("\\")) \o PushByteAsChar(b)
        IN
        IF ~CanSlice(after, 1, Len(after)) THEN Panic
        ELSE unescape_loop(o2, Slice(after, 1, Len(after)))

unescape_string(s) ==
    IF ~(\E i \in 1..Len(s) : s[i] = B("\\")) THEN Ok(s)
    ELSE unescape_loop(<<>>, s)

\* .find(|&&(byte, _)| byte == b).map(|&(_, seq)| seq): <<>> is None.
EscapeOf(b) ==
    IF \E k \in 1..Len(ESCAPE_SEQUENCES) : ESCAPE_SEQUENCES[k][1] = b
    THEN <<ESCAPE_SEQUENCES[CHOOSE k \in 1..Len(ESCAPE_SEQUENCES) :
               /\ ESCAPE_SEQUENCES[k][1] = b
               /\ \A j \in 1..(k - 1) : ESCAPE_SEQUENCES[j][1] # b][2]>>
    ELSE <<>>

\* The while loop of escape_string, from the state (out, last, i).
RECURSIVE escape_loop(_, _, _, _)
escape_loop(s, o, last, i) ==
    IF i < Len(s)
    THEN LET esc == EscapeOf(s[i + 1]) IN
         IF esc # <<>>
         THEN IF ~CanSlice(s, last, i) THEN Panic
              ELSE escape_loop(s, o \o Slice(s, last, i) \o esc[1], i + 1, i + 1)
         ELSE escape_loop(s, o, last, i + 1)
    ELSE IF ~CanSlice(s, last, Len(s)) THEN Panic
         ELSE Ok(o \o Slice(s, last, Len(s)))

escape_string(s) ==
    IF ~(\E i \in 1..Len(s) : s[i] \in ESCAPE_BYTES) THEN Ok(s)
    ELSE escape_loop(s, <<>>, 0, 0)

----------------------------------------------------------------------------
(* localisation.rs: the value of a Pair, written and read back             *)

normalize_localisation_value(value) ==
    LET escaped == escape_string(value) IN
    IF escaped.t = "Panic" THEN Panic
    ELSE Ok(<<B("\"")>> \o escaped.v \o <<B("\"")>>)

\* serialize_pair for key "k" and no version: " k: <value>\n".
loc_serialize_pair(value) ==
    LET v == normalize_localisation_value(value) IN
    IF v.t = "Panic" THEN Panic
    ELSE Ok(Bytes(<<" ", "k", ":", " ">>) \o v.v \o <<B("\n")>>)

\* The text the grammar's `inner` rule matches in an entry line: what lies
\* between the first double quote and the last one.
LocInner(ln) ==
    LET qs == {i \in 1..Len(ln) : ln[i] = B("\"")}
        lo == CHOOSE i \in qs : \A j \in qs : i <= j
        hi == CHOOSE i \in qs : \A j \in qs : j <= i
    IN SubSeq(ln, lo + 1, hi - 1)

\* parse_pair: Rule::inner => value = unescape_string(part.as_str()).
loc_parse_pair(ln) == unescape_string(LocInner(ln))

----------------------------------------------------------------------------
(* parser.rs: atoms, keys and dates                                         *)

\* Option<T>: <<>> is None, <<x>> is Some(x).
None == <<>>
Some(x) == <<x>>

\* s.split(sep).collect(): the fields between the separators (at least one).
RECURSIVE Split(_, _)
Split(s, sep) ==
    LET pos == Find(s, sep) IN
    IF pos = -1 THEN <<s>>
    ELSE <<SubSeq(s, 1, pos)>> \o Split(SubSeq(s, pos + 2, Len(s)), sep)

IsDigit(b) == b >= B("0") /\ b <= B("9")

\* x.chars().all(|c| c.is_ascii_digit()): every byte of a non-ASCII char is >= 128.
all_digits(x) == \A i \in 1..Len(x) : IsDigit(x[i])

\* The value of a string of decimal digits.
RECURSIVE DigitsValue(_)
DigitsValue(x) ==
    IF x = <<>> THEN 0
    ELSE 10 * DigitsValue(SubSeq(x, 1, Len(x) - 1)) + (x[Len(x)] - B("0"))

StripLeadingZeros(x) ==
    LET nz == {i \in 1..Len(x) : x[i] # B("0")} IN
    IF nz = {} THEN <<B("0")>>
    ELSE SubSeq(x, CHOOSE i \in nz : \A j \in nz : i <= j, Len(x))

StripTrailingZeros(x) ==
    LET nz == {i \in 1..Len(x) : x[i] # B("0")} IN
    IF nz = {} THEN <<>>
    ELSE SubSeq(x, 1, CHOOSE i \in nz : \A j \in nz : j <= i)

\* Whether the digit string x (no leading zeros) is a greater number than max.
RECURSIVE DigitsGreater(_, _)
DigitsGreater(x, max) ==
    IF Len(x) # Len(max) THEN Len(x) > Len(max)
    ELSE IF x = <<>> THEN FALSE
    ELSE IF x[1] # max[1] THEN x[1] > max[1]
    ELSE DigitsGreater(Tail(x), Tail(max))

\* u32::MAX and u8::MAX, as decimal digits (the former is beyond TLC's integers).
U32Max == Bytes(<<"4", "2", "9", "4", "9", "6", "7", "2", "9", "5">>)
U8Max  == Bytes(<<"2", "5", "5">>)

\* str::parse::<uN>() for an unsigned type of maximum max: an optional '+',
\* then one or more digits, the value within the type; -1 stands for Err.
ParseUnsigned(x, max) ==
    LET digits == IF x # <<>> /\ x[1] = B("+") THEN Tail(x) ELSE x IN
    IF digits = <<>> \/ ~all_digits(digits) THEN -1
    ELSE IF DigitsGreater(StripLeadingZeros(digits), max) THEN -1
    ELSE DigitsValue(digits)

Date(y, m, d, h) == [y |-> y, m |-> m, d |-> d, h |-> h]

\* parse_date_str: every unwrap() panics on None / Err.
parse_date_str(s) ==
    LET parts == Split(s, B("."))
        y == ParseUnsigned(parts[1], U32Max)
        m == IF Len(parts) >= 2 THEN ParseUnsigned(parts[2], U8Max) ELSE -1
        d == IF Len(parts) >= 3 THEN ParseUnsigned(parts[3], U8Max) ELSE -1
        h == IF Len(parts) >= 4 THEN ParseUnsigned(parts[4], U8Max) ELSE 0
    IN
    IF y = -1 \/ m = -1 \/ d = -1 \/ h = -1 THEN Panic
    ELSE Ok(Date(y, m, d, IF Len(parts) >= 4 THEN Some(h) ELSE None))

\* The year check of a variant that accepts a year of 1 to 4 digits.
YearFieldOk_AnyLength(x) == all_digits(x) /\ Len(x) >= 1 /\ Len(x) <= 4

\* all_digits(parts[0]) && (3..=4).contains(&parts[0].len())
YearFieldOk(x) == all_digits(x) /\ Len(x) >= 3 /\ Len(x) <= 4

\* !(!all_digits(parts[i]) || !(1..=2).contains(&parts[i].len()))
OtherFieldOk(x) == all_digits(x) /\ Len(x) >= 1 /\ Len(x) <= 2

\* try_parse_date_like: Option<Date>; `.ok()?` returns None on a failed conversion.
try_parse_date_like(s) ==
    LET parts == Split(s, B(".")) IN
    IF Len(parts) # 3 /\ Len(parts) # 4 THEN None
    ELSE IF ~YearFieldOk(parts[1]) THEN None
    ELSE IF \E i \in 2..Len(parts) : ~OtherFieldOk(parts[i]) THEN None
    ELSE
      LET y == ParseUnsigned(parts[1], U32Max)
          m == ParseUnsigned(parts[2], U8Max)
          d == ParseUnsigned(parts[3], U8Max)
          h == IF Len(parts) = 4 THEN ParseUnsigned(parts[4], U8Max) ELSE 0
      IN
      IF y = -1 \/ m = -1 \/ d = -1 \/ h = -1 THEN None
      ELSE Some(Date(y, m, d, IF Len(parts) = 4 THEN Some(h) ELSE None))

\* A node of the parse tree (pest's Pair<Rule>): its rule, the text it spans
\* and its inner nodes.
Node(rule, str, inner) == [rule |-> rule, str |-> str, inner |-> inner]

\* str::parse::<f64>() of a literal [+-]digits[.digits].  An f64 is held as its
\* sign, its integer digits and its fraction digits without trailing zeros:
\* exact for the short decimal literals of the inputs.
parse_f64(x) ==
    LET neg  == x # <<>> /\ x[1] = B("-")
        body == IF x # <<>> /\ x[1] \in {B("-"), B("+")} THEN Tail(x) ELSE x
        dot  == Find(body, B("."))
        ip   == IF dot = -1 THEN body ELSE SubSeq(body, 1, dot)
        fp   == IF dot = -1 THEN <<>> ELSE SubSeq(body, dot + 2, Len(body))
    IN [neg |-> neg, int |-> StripLeadingZeros(ip), frac |-> StripTrailingZeros(fp)]

\* f64::to_string()
f64_to_string(n) ==
    (IF n.neg THEN <<B("-")>> ELSE <<>>) \o n.int
      \o (IF n.frac = <<>> THEN <<>> ELSE <<B(".")>> \o n.frac)

\* u32 / u8 Display
RECURSIVE ToDecimal(_)
ToDecimal(n) ==
    IF n < 10 THEN <<B("0") + n>>
    ELSE Append(ToDecimal(n \div 10), B("0") + (n % 10))

AtomString(s) == [t |-> "String", s |-> s]
AtomIdent(s)  == [t |-> "Ident", s |-> s]
AtomNumber(n) == [t |-> "Number", n |-> n]
AtomDate(d)   == [t |-> "Date", d |-> d]
AtomBool(b)   == [t |-> "Bool", b |-> b]

\* parse_atom: an Atom, or Panic where parse_date_str panics.
parse_atom(p) ==
    CASE p.rule = "string" ->
           LET s == p.inner[1].str
               d == try_parse_date_like(s)
           IN IF d # None THEN AtomDate(d[1]) ELSE AtomString(s)
      [] p.rule = "identifier" -> AtomIdent(p.str)
      [] p.rule = "number" -> AtomNumber(parse_f64(p.str))
      [] p.rule = "date" ->
           LET d == parse_date_str(p.str) IN
           IF d.t = "Panic" THEN Panic ELSE AtomDate(d.v)
      [] p.rule = "boolean" -> AtomBool(p.str = Bytes(<<"y", "e", "s">>))
      [] OTHER -> AtomIdent(p.str)

\* parse_key: a KeyAtom, or Panic where parse_date_str panics.
parse_key(p) ==
    CASE p.rule = "identifier" -> AtomIdent(p.str)
      [] p.rule = "number" -> AtomNumber(parse_f64(p.str))
      [] p.rule = "date" ->
           LET d == parse_date_str(p.str) IN
           IF d.t = "Panic" THEN Panic ELSE AtomDate(d.v)
      [] OTHER -> AtomIdent(p.str)

\* The format of a variant that never quotes.
fmt_date_NoQuotes(d) ==
    ToDecimal(d.y) \o <<B(".")>> \o ToDecimal(d.m) \o <<B(".")>> \o ToDecimal(d.d)
      \o (IF d.h # None THEN <<B(".")>> \o ToDecimal(d.h[1]) ELSE <<>>)

\* fmt_date
fmt_date(d) ==
    IF d.h # None
    THEN <<B("\"")>> \o ToDecimal(d.y) \o <<B(".")>> \o ToDecimal(d.m) \o <<B(".")>>
           \o ToDecimal(d.d) \o <<B(".")>> \o ToDecimal(d.h[1]) \o <<B("\"")>>
    ELSE ToDecimal(d.y) \o <<B(".")>> \o ToDecimal(d.m) \o <<B(".")>> \o ToDecimal(d.d)

\* serialize_atom
serialize_atom(a) ==
    CASE a.t = "String" -> <<B("\"")>> \o a.s \o <<B("\"")>>
      [] a.t = "Ident"  -> a.s
      [] a.t = "Number" -> f64_to_string(a.n)
      [] a.t = "Date"   -> fmt_date(a.d)
      [] a.t = "Bool"   -> IF a.b THEN Bytes(<<"y", "e", "s">>) ELSE Bytes(<<"n", "o">>)

\* serialize_key
serialize_key(k) ==
    CASE k.t = "Ident"  -> k.s
      [] k.t = "Number" -> f64_to_string(k.n)
      [] k.t = "Date"   -> fmt_date(k.d)

----------------------------------------------------------------------------
(* The grammar (hoi4.pest): text -> parse tree                              *)

IsSpace(b) == b \in {B(" "), B("\t"), B("\r"), B("\n")}

\* The bytes that end a bareword.
Delimiters ==
    {B(" "), B("\t"), B("\r"), B("\n"),
     B("{"), B("}"), B("="), B("<"), B(">"), B("\""), B("#")}

\* The bytes that end a comment.
LineEnds == {B("\n"), B("\r")}

Token(k, str) == [k |-> k, str |-> str]

\* The 0-based index just past the closing quote of the string literal that
\* opens at index i (a backslash escapes the byte after it); -1 if unterminated.
RECURSIVE StringEnd(_, _)
StringEnd(txt, j) ==
    IF j >= Len(txt) THEN -1
    ELSE IF txt[j + 1] = B("\"") THEN j + 1
    ELSE IF txt[j + 1] = B("\\") THEN StringEnd(txt, j + 2)
    ELSE StringEnd(txt, j + 1)

\* The 0-based index of the first byte at or after j that is in stops, else len.
RECURSIVE ScanTo(_, _, _)
ScanTo(txt, j, stops) ==
    IF j >= Len(txt) \/ txt[j + 1] \in stops THEN j ELSE ScanTo(txt, j + 1, stops)

\* The tokens of the text from index i on; <<Token("error", ..)>> ends a failed scan.
RECURSIVE Lex(_, _)
Lex(txt, i) ==
    IF i >= Len(txt) THEN <<>>
    ELSE
      LET b == txt[i + 1] IN
      CASE IsSpace(b) -> Lex(txt, i + 1)
        [] b = B("{") -> <<Token("lbrace", <<b>>)>> \o Lex(txt, i + 1)
        [] b = B("}") -> <<Token("rbrace", <<b>>)>> \o Lex(txt, i + 1)
        [] b = B("=") -> <<Token("operator", <<b>>)>> \o Lex(txt, i + 1)
        [] b \in {B("<"), B(">")} ->
             IF i + 1 < Len(txt) /\ txt[i + 2] = B("=")
             THEN <<Token("operator", <<b, B("=")>>)>> \o Lex(txt, i + 2)
             ELSE <<Token("operator", <<b>>)>> \o Lex(txt, i + 1)
        [] b = B("#") ->
             LET e == ScanTo(txt, i, LineEnds) IN
             <<Token("comment", Slice(txt, i, e))>> \o Lex(txt, e)
        [] b = B("\"") ->
             LET e == StringEnd(txt, i + 1) IN
             IF e = -1 THEN <<Token("error", Slice(txt, i, Len(txt)))>>
             ELSE <<Token("string", Slice(txt, i, e))>> \o Lex(txt, e)
        [] OTHER ->
             LET e == ScanTo(txt, i, Delimiters) IN
             <<Token("word", Slice(txt, i, e))>> \o Lex(txt, e)

\* date: digits '.' digits '.' digits ('.' digits)?
IsDateWord(w) ==
    LET parts == Split(w, B(".")) IN
    /\ Len(parts) \in {3, 4}
    /\ \A i \in 1..Len(parts) : parts[i] # <<>> /\ all_digits(parts[i])

\* number: ('+' | '-')? digits ('.' digits)?
IsNumberWord(w) ==
    LET body  == IF w # <<>> /\ w[1] \in {B("-"), B("+")} THEN Tail(w) ELSE w
        parts == Split(body, B("."))
    IN /\ Len(parts) \in {1, 2}
       /\ \A i \in 1..Len(parts) : parts[i] # <<>> /\ all_digits(parts[i])

IsBooleanWord(w) == w \in {Bytes(<<"y", "e", "s">>), Bytes(<<"n", "o">>)}

\* The node of a bareword in value position: date | number | boolean | identifier.
WordNode(w) ==
    Node(CASE IsDateWord(w) -> "date"
           [] IsNumberWord(w) -> "number"
           [] IsBooleanWord(w) -> "boolean"
           [] OTHER -> "identifier", w, <<>>)

\* The node of a bareword in key position: date | number | identifier.
KeyNode(w) ==
    Node(CASE IsDateWord(w) -> "date"
           [] IsNumberWord(w) -> "number"
           [] OTHER -> "identifier", w, <<>>)

\* string = "\"" inner "\"": the inner node spans the text between the quotes.
StringNode(lit) ==
    Node("string", lit, <<Node("inner", SubSeq(lit, 2, Len(lit) - 1), <<>>)>>)

\* The result of a grammar rule at token k: the node and the next token, or failure.
Matched(node, next) == [ok |-> TRUE, node |-> node, next |-> next]
NoMatch == [ok |-> FALSE]

RECURSIVE GValue(_, _), GItem(_, _), GBody(_, _, _)

\* block = { "{" ~ body ~ "}" }: the body has matched, the brace must follow.
GBlockClose(toks, body) ==
    IF body.next <= Len(toks) /\ toks[body.next].k = "rbrace"
    THEN Matched(Node("value", <<>>, <<Node("block", <<>>, <<body.node>>)>>),
                 body.next + 1)
    ELSE NoMatch

\* value = { block | string | date | number | boolean | identifier }
GValue(toks, k) ==
    IF k > Len(toks) THEN NoMatch
    ELSE
      CASE toks[k].k = "lbrace" -> GBlockClose(toks, GBody(toks, k + 1, <<>>))
        [] toks[k].k = "string" ->
             Matched(Node("value", toks[k].str, <<StringNode(toks[k].str)>>), k + 1)
        [] toks[k].k = "word" ->
             Matched(Node("value", toks[k].str, <<WordNode(toks[k].str)>>), k + 1)
        [] OTHER -> NoMatch

\* pair = { key ~ operator ~ value }: key and operator are at k, v is the value's match.
GPair(toks, k, v) ==
    IF v.ok
    THEN Matched(Node("item", <<>>,
                      <<Node("pair", <<>>,
                             <<KeyNode(toks[k].str),
                               Node("operator", toks[k + 1].str, <<>>),
                               v.node>>)>>),
                 v.next)
    ELSE NoMatch

\* item = { pair | value | comment }, the pair alternative having failed:
\* v is the match of value at k.
GValueOrComment(toks, k, v) ==
    IF v.ok THEN Matched(Node("item", <<>>, <<v.node>>), v.next)
    ELSE IF toks[k].k = "comment"
         THEN Matched(Node("item", <<>>, <<Node("comment", toks[k].str, <<>>)>>), k + 1)
    ELSE NoMatch

\* Whether a key and an operator stand at k.
KeyAndOperatorAt(toks, k) ==
    /\ toks[k].k = "word"
    /\ k + 1 <= Len(toks)
    /\ toks[k + 1].k = "operator"

\* The match of item at k, v being the match of the value that follows the
\* key and the operator standing at k, or else the match of value at k.  When
\* the pair fails, the value alternative matches the key alone and the body
\* ends before the operator.
GItemAt(toks, k, v) ==
    IF KeyAndOperatorAt(toks, k)
    THEN IF v.ok THEN GPair(toks, k, v)
         ELSE Matched(Node("item", <<>>,
                           <<Node("value", toks[k].str, <<WordNode(toks[k].str)>>)>>), k + 1)
    ELSE GValueOrComment(toks, k, v)

\* item = { pair | value | comment }
GItem(toks, k) ==
    IF k > Len(toks) THEN NoMatch
    ELSE GItemAt(toks, k, GValue(toks, IF KeyAndOperatorAt(toks, k) THEN k + 2 ELSE k))

\* body = { item* }: the items matched so far are acc, it is the match of item at k.
GBodyNext(toks, k, acc, it) ==
    IF it.ok THEN GBody(toks, it.next, Append(acc, it.node))
    ELSE Matched(Node("body", <<>>, acc), k)

GBody(toks, k, acc) == GBodyNext(toks, k, acc, GItem(toks, k))

\* HoiParser::parse(Rule::file, input): file = { SOI ~ body ~ EOI }.
\* Ok(file node) or Err.
GrammarErr == [t |-> "Err"]

FileMatch(input, toks, body) ==
    IF body.next = Len(toks) + 1
    THEN Ok(Node("file", input, <<body.node>>))
    ELSE GrammarErr

HoiParser_parse(input) == FileMatch(input, Lex(input, 0), GBody(Lex(input, 0), 1, <<>>))

----------------------------------------------------------------------------
(* parser.rs: parse tree -> AST                                             *)

ValueAtom(a)      == [t |-> "Atom", a |-> a]
ValueArray(atoms) == [t |-> "Array", arr |-> atoms]
ValueBlock(items) == [t |-> "Block", items |-> items]

ItemPair(key, op, value) == [t |-> "Pair", key |-> key, op |-> op, value |-> value]
ItemValue(v)             == [t |-> "ValueItem", v |-> v]
ItemComment(s)           == [t |-> "Comment", s |-> s]

\* parse_operator
parse_operator(p) ==
    CASE p.str = Bytes(<<"=">>)      -> "Eq"
      [] p.str = Bytes(<<"<", "=">>) -> "Le"
      [] p.str = Bytes(<<">", "=">>) -> "Ge"
      [] p.str = Bytes(<<"<">>)      -> "Lt"
      [] p.str = Bytes(<<">">>)      -> "Gt"
      [] OTHER                       -> "Eq"

AtomRules == {"string", "date", "number", "boolean", "identifier"}

\* Item::ValueItem(Value::Atom(a)): the arm of parse_block that pushes to atoms.
IsPlainAtom(parsed) == parsed.t = "ValueItem" /\ parsed.v.t = "Atom"

\* The iteration of a variant that classifies by the latest child: a plain
\* atom sets the flag again.
block_scan_Reclassify(st, parsed) ==
    IF IsPlainAtom(parsed)
    THEN [st EXCEPT !.atoms = Append(@, parsed.v.a), !.only_atoms = TRUE]
    ELSE [st EXCEPT !.items = Append(@, parsed), !.only_atoms = FALSE]

\* One iteration of the scan of parse_block over a parsed child.
block_scan(st, parsed) ==
    IF IsPlainAtom(parsed)
    THEN [st EXCEPT !.atoms = Append(@, parsed.v.a)]
    ELSE [st EXCEPT !.items = Append(@, parsed), !.only_atoms = FALSE]

RECURSIVE parse_block(_), parse_item(_), block_loop(_, _, _)

\* Value::Atom(parse_atom(v)), or the panic of parse_atom.
AtomValue(a) == IF a.t = "Panic" THEN Panic ELSE ValueAtom(a)

\* The match on a concrete value node: a block, an atom, or the fallback.
parse_value_node(v) ==
    CASE v.rule = "block" -> parse_block(v)
      [] v.rule \in AtomRules -> AtomValue(parse_atom(v))
      [] OTHER -> ValueAtom(AtomIdent(v.str))

\* The rest of an iteration of parse_block over child k, parsed by parse_item.
block_next(its, k, st, parsed) ==
    IF parsed.t = "Panic" THEN Panic
    ELSE block_loop(its, k + 1, block_scan(st, parsed))

\* The for loops of parse_block from child k on, with (items, atoms, only_atoms) = st.
block_loop(its, k, st) ==
    IF k > Len(its) THEN st
    ELSE block_next(its, k, st, parse_item(its[k]))

\* The item nodes of the body children of a node.
BodyItems(p) ==
    Concat([i \in 1..Len(p.inner) |->
              IF p.inner[i].rule = "body" THEN p.inner[i].inner ELSE <<>>])

\* if only_atoms { Value::Array(atoms) } else { Value::Block(items) }
block_result(st) ==
    IF st.t = "Panic" THEN Panic
    ELSE IF st.only_atoms THEN ValueArray(st.atoms)
    ELSE ValueBlock(st.items)

\* parse_block: a Value, or Panic.
parse_block(p) ==
    block_result(block_loop(BodyItems(p), 1,
                            [items |-> <<>>, atoms |-> <<>>, only_atoms |-> TRUE,
                             t |-> "Scan"]))

\* Item::Pair { key, op, value }, or the panic of one of its parts.
pair_result(key, op, value) ==
    IF key.t = "Panic" \/ value.t = "Panic" THEN Panic
    ELSE ItemPair(key, op, value)

\* Item::ValueItem(val), or the panic of val.
value_item_result(val) == IF val.t = "Panic" THEN Panic ELSE ItemValue(val)

\* The node the value of a pair is matched on: the node wrapped by
\* Rule::value, or the node itself.
PairValueNode(val_pair) ==
    IF val_pair.rule = "value" THEN val_pair.inner[1] ELSE val_pair

\* parse_item: an Item, or Panic.
parse_item(p) ==
    CASE p.rule = "item" ->
           IF p.inner # <<>> THEN parse_item(p.inner[1])
           ELSE ItemValue(ValueAtom(AtomIdent(<<>>)))
      [] p.rule = "pair" ->
           pair_result(parse_key(p.inner[1]), parse_operator(p.inner[2]),
                       parse_value_node(PairValueNode(p.inner[3])))
      [] p.rule = "value" -> value_item_result(parse_value_node(p.inner[1]))
      [] p.rule = "comment" -> ItemComment(p.str)
      [] OTHER -> ItemValue(ValueAtom(AtomIdent(p.str)))

RECURSIVE file_loop(_, _, _)

\* The rest of an iteration of parse_file over item k, parsed by parse_item.
file_next(its, k, items, parsed) ==
    IF parsed.t = "Panic" THEN Panic
    ELSE file_loop(its, k + 1, Append(items, parsed))

\* The loop of parse_file from item k on.
file_loop(its, k, items) ==
    IF k > Len(its) THEN Ok(items)
    ELSE file_next(its, k, items, parse_item(its[k]))

\* parse_file: Ok(items), or Panic.
parse_file(file) == file_loop(BodyItems(file), 1, <<>>)

\* Ok(parse_file(pairs)) after the `?` on the grammar's result.
parse_str_result(pairs) ==
    IF pairs.t = "Err" THEN GrammarErr
    ELSE parse_file(pairs.v)

\* parse_str: Ok(items), Err (the grammar's error message), or Panic.
parse_str(input) == parse_str_result(HoiParser_parse(input))

----------------------------------------------------------------------------
(* parser.rs: AST -> text                                                   *)

WrapBudget == 120

\* The test of the variant that forgets the separating space.
WrapNeeded_NoSeparator(ln, elem) ==
    ln # <<>> /\ Len(ln) + Len(elem) > WrapBudget

\* !line.is_empty() && prospective_len > 120
WrapNeeded(ln, elem) ==
    LET sep == IF ln = <<>> THEN <<>> ELSE <<B(" ")>>
        prospective_len == Len(ln) + Len(sep) + Len(elem)
    IN ln # <<>> /\ prospective_len > WrapBudget

\* The iteration of a variant that clears the pending line on a wrap without
\* writing it.
array_iter_DropOnWrap(st, elem, i, n, ind) ==
    LET wrap  == WrapNeeded(st.line, elem)
        line1 == IF wrap THEN <<>> ELSE st.line
        line2 == IF line1 = <<>> THEN elem ELSE line1 \o <<B(" ")>> \o elem
        out2  == IF i = n - 1
                 THEN st.out \o Repeat(B(" "), ind + 2) \o line2 \o <<B("\n")>>
                 ELSE st.out
    IN [out |-> out2, line |-> line2]

\* One iteration of the soft-wrap loop over element number i (0-based) of n,
\* from the state st = (out, line).
array_iter(st, elem, i, n, ind) ==
    LET wrap  == WrapNeeded(st.line, elem)
        out1  == IF wrap
                 THEN st.out \o Repeat(B(" "), ind + 2) \o st.line \o <<B("\n")>>
                 ELSE st.out
        line1 == IF wrap THEN <<>> ELSE st.line
        line2 == IF line1 = <<>> THEN elem ELSE line1 \o <<B(" ")>> \o elem
        out2  == IF i = n - 1
                 THEN out1 \o Repeat(B(" "), ind + 2) \o line2 \o <<B("\n")>>
                 ELSE out1
    IN [out |-> out2, line |-> line2]

\* The loop of a variant that writes the pending line after the loop instead
\* of in the iteration of the last element.
RECURSIVE array_loop_FlushAfter(_, _, _, _)
array_loop_FlushAfter(rend, i, st, ind) ==
    IF i >= Len(rend)
    THEN [out |-> st.out \o Repeat(B(" "), ind + 2) \o st.line \o <<B("\n")>>, line |-> <<>>]
    ELSE array_loop_FlushAfter(rend, i + 1,
                               array_iter(st, rend[i + 1], i, Len(rend) + 1, ind), ind)

RECURSIVE array_loop(_, _, _, _)
array_loop(rend, i, st, ind) ==
    IF i >= Len(rend) THEN st
    ELSE array_loop(rend, i + 1, array_iter(st, rend[i + 1], i, Len(rend), ind), ind)

OperatorText(op) ==
    CASE op = "Eq" -> Bytes(<<"=">>)
      [] op = "Le" -> Bytes(<<"<", "=">>)
      [] op = "Ge" -> Bytes(<<">", "=">>)
      [] op = "Lt" -> Bytes(<<"<">>)
      [] op = "Gt" -> Bytes(<<">">>)

RECURSIVE serialize_value(_, _), serialize_item(_, _)

\* serialize_value
serialize_value(v, ind) ==
    CASE v.t = "Atom" -> serialize_atom(v.a)
      [] v.t = "Array" ->
           LET rend == [i \in 1..Len(v.arr) |-> serialize_atom(v.arr[i])]
               st   == array_loop(rend, 0, [out |-> Bytes(<<"{", "\n">>), line |-> <<>>], ind)
           IN st.out \o Repeat(B(" "), ind) \o Bytes(<<"}", "\n">>)
      [] v.t = "Block" ->
           Bytes(<<"{", "\n">>)
             \o Concat([i \in 1..Len(v.items) |-> serialize_item(v.items[i], ind + 4)])
             \o Repeat(B(" "), ind) \o Bytes(<<"}", "\n">>)

\* serialize_item
serialize_item(it, ind) ==
    CASE it.t = "Pair" ->
           Repeat(B(" "), ind) \o serialize_key(it.key) \o <<B(" ")>>
             \o OperatorText(it.op) \o <<B(" ")>>
             \o serialize_value(it.value, ind)
             \o (IF it.value.t = "Atom" THEN <<B("\n")>> ELSE <<>>)
      [] it.t = "ValueItem" ->
           Repeat(B(" "), ind) \o serialize_value(it.v, ind)
             \o (IF it.v.t \in {"Atom", "Array"} THEN <<B("\n")>> ELSE <<>>)
      [] it.t = "Comment" ->
           Repeat(B(" "), ind) \o it.s \o <<B("\n")>>

\* serialize_file
serialize_file(items) ==
    Concat([i \in 1..Len(items) |-> serialize_item(items[i], 0)])

----------------------------------------------------------------------------
(* Inputs of the codec                                                      *)

MaxStrLen == 3

\* The characters strings are drawn from; the last one is U+00E9 (two bytes).
CodecChars ==
    { <<B("\\")>>, <<B("\"")>>, <<B("\n")>>, <<B("\r")>>, <<B("\t")>>,
      <<B("n")>>, <<B("a")>>, <<195, 169>> }

RECURSIVE StringsUpTo(_)
StringsUpTo(n) ==
    IF n = 0 THEN {<<>>}
    ELSE LET shorter == StringsUpTo(n - 1) IN
         shorter \cup {s \o c : s \in shorter, c \in CodecChars}

CodecStrings == StringsUpTo(MaxStrLen)

Idle == [t |-> "Idle"]

CodecIdle == cop = "idle" /\ cin = <<>> /\ cout = Idle
DateIdle  == dop = "idle" /\ din = <<>> /\ dout = Idle
WrapIdle  == /\ wpc = "idle" /\ arr = <<>> /\ indent = 0 /\ rendered = <<>> /\ idx = 0
             /\ line = <<>> /\ out = <<>> /\ lines = <<>> /\ pending = <<>>
PipeIdle  == /\ pc = "idle" /\ text = <<>> /\ tree = Idle /\ result = Idle
             /\ round = 0 /\ canon = <<>>
ScanIdle  == spc = "idle" /\ snode = Idle /\ sk = 0 /\ scan = Idle /\ sval = Idle

\* escape_string(cin)
EscapeString ==
    /\ cop = "input"
    /\ cop' = "escape"
    /\ cout' = escape_string(cin)
    /\ UNCHANGED <<scanVars, cin, dateVars, wrapVars, pipeVars>>

\* unescape_string(cin)
UnescapeString ==
    /\ cop = "input"
    /\ cop' = "unescape"
    /\ cout' = unescape_string(cin)
    /\ UNCHANGED <<scanVars, cin, dateVars, wrapVars, pipeVars>>

\* unescape_string applied to the result of escape_string(cin)
UnescapeEscaped ==
    /\ cop = "escape" /\ cout.t = "Ok"
    /\ cop' = "roundtrip"
    /\ cout' = unescape_string(cout.v)
    /\ UNCHANGED <<scanVars, cin, dateVars, wrapVars, pipeVars>>

\* serialize_pair of a Pair whose value is cin
LocSerializePair ==
    /\ cop = "input"
    /\ cop' = "loc_written"
    /\ cout' = loc_serialize_pair(cin)
    /\ UNCHANGED <<scanVars, cin, dateVars, wrapVars, pipeVars>>

\* parse_pair of the line serialize_pair wrote
LocParsePair ==
    /\ cop = "loc_written" /\ cout.t = "Ok"
    /\ cop' = "loc_read"
    /\ cout' = loc_parse_pair(cout.v)
    /\ UNCHANGED <<scanVars, cin, dateVars, wrapVars, pipeVars>>

InitCodec ==
    /\ cop = "input" /\ cin \in CodecStrings /\ cout = Idle
    /\ DateIdle /\ WrapIdle /\ PipeIdle /\ ScanIdle

NextCodec ==
    \/ EscapeString
    \/ UnescapeString
    \/ UnescapeEscaped
    \/ LocSerializePair
    \/ LocParsePair

SpecCodec == InitCodec /\ [][NextCodec]_vars

----------------------------------------------------------------------------
(* Inputs of parse_str: source documents                                    *)

MaxChildren == 3

W_a     == Bytes(<<"a">>)
W_v     == Bytes(<<"v">>)
W_num   == Bytes(<<"1", ".", "5", "0">>)
W_yes   == Bytes(<<"y", "e", "s">>)
W_date  == Bytes(<<"1", "9", "3", "6", ".", "0", "1", ".", "1">>)
W_dateh == Bytes(<<"1", "9", "3", "6", ".", "1", ".", "1", ".", "6">>)
W_big   == Bytes(<<"1", "9", "3", "6", ".", "3", "0", "0", ".", "1">>)
W_qdate == Bytes(<<"\"", "1", "9", "3", "6", ".", "1", ".", "1", "\"">>)
W_qhour == Bytes(<<"\"", "1", "9", "3", "6", ".", "1", ".", "1", ".", "6", "\"">>)
W_str   == Bytes(<<"\"", "x", " ", "y", "\"">>)
W_esc   == Bytes(<<"\"", "a", "\\", "\"", "b", "\"">>)
W_k     == Bytes(<<"k">>)
W_seven == Bytes(<<"0", "7">>)
W_cmt   == Bytes(<<"#", "c", "\n">>)
W_open  == Bytes(<<"{">>)
W_close == Bytes(<<"}">>)
W_eq    == Bytes(<<"=">>)
W_ge    == Bytes(<<">", "=">>)

\* The words of ws, each followed by a space.
Spaced(ws) == Concat([i \in 1..Len(ws) |-> ws[i] \o <<B(" ")>>])

RECURSIVE SeqsUpTo(_, _)
SeqsUpTo(S, n) ==
    IF n = 0 THEN {<<>>}
    ELSE LET shorter == SeqsUpTo(S, n - 1) IN
         shorter \cup {Append(q, x) : q \in shorter, x \in S}

ValueWords == {W_a, W_num, W_yes, W_date, W_dateh, W_big, W_qdate, W_qhour, W_str, W_esc}
KeyWords   == {W_k, W_dateh, W_seven}

\* The children a brace group of the inputs is made of.
GroupChildren ==
    { W_a, W_num, W_qdate, W_cmt,
      Spaced(<<W_k, W_eq, W_v>>),
      Spaced(<<W_open, W_a, W_close>>) }

Groups ==
    {Spaced(<<W_open>>) \o Spaced(cs) \o W_close : cs \in SeqsUpTo(GroupChildren, MaxChildren)}

\* k = { k = { ... g ... } }, n levels around g.
RECURSIVE Nested(_, _)
Nested(g, n) ==
    IF n = 0 THEN g
    ELSE Spaced(<<W_open, W_k, W_eq>>) \o Nested(g, n - 1) \o <<B(" ")>> \o W_close

MaxNestingInput == 3

Malformed ==
    { Spaced(<<W_open, W_a>>), Spaced(<<W_a, W_close>>), Spaced(<<W_k, W_eq>>),
      Spaced(<<W_eq, W_a>>), Bytes(<<"\"", "a">>), Spaced(<<W_k, W_eq, W_close>>) }

Inputs ==
    {<<>>}
      \cup ValueWords \cup {W_cmt}
      \cup {Spaced(<<k, o, w>>) : k \in KeyWords, o \in {W_eq, W_ge}, w \in ValueWords}
      \cup Groups
      \cup {Spaced(<<W_k, W_eq>>) \o g : g \in Groups}
      \cup {Spaced(<<W_k, W_eq>>) \o Nested(Spaced(<<W_open, W_a, W_close>>), n) :
              n \in 1..MaxNestingInput}
      \cup {Spaced(<<W_a, W_cmt, W_k, W_eq, W_num>>)}
      \cup Malformed

----------------------------------------------------------------------------
(* The pipeline of main.rs / the tests: parse_str, then serialize_file,     *)
(* then both again on the text written                                      *)

\* parse_str(text)
ParseStr ==
    /\ pc \in {"input", "serialized"}
    /\ pc' = "parsed"
    /\ tree' = HoiParser_parse(text)
    /\ result' = parse_str(text)
    /\ UNCHANGED <<scanVars, text, round, canon, codecVars, dateVars, wrapVars>>

\* serialize_file(&ast) of the document parse_str returned
SerializeFile ==
    /\ pc = "parsed" /\ result.t = "Ok" /\ round < 2
    /\ pc' = "serialized"
    /\ text' = serialize_file(result.v)
    /\ round' = round + 1
    /\ canon' = IF round = 0 THEN serialize_file(result.v) ELSE canon
    /\ UNCHANGED <<scanVars, tree, result, codecVars, dateVars, wrapVars>>

Init ==
    /\ pc = "input" /\ text \in Inputs /\ tree = Idle /\ result = Idle
    /\ round = 0 /\ canon = <<>>
    /\ CodecIdle /\ DateIdle /\ WrapIdle /\ ScanIdle

Next ==
    \/ ParseStr
    \/ SerializeFile

Spec == Init /\ [][Next]_vars

----------------------------------------------------------------------------
(* The date heuristic and the date formats                                  *)

MaxFields == 5

\* The dot-free fields the content of a quoted string is made of.
DateFields ==
    { <<>>, Bytes(<<"1">>), Bytes(<<"1", "2">>), Bytes(<<"1", "2", "3">>),
      Bytes(<<"1", "9", "3", "6">>), Bytes(<<"1", "2", "3", "4", "5">>),
      Bytes(<<"a", "1">>), Bytes(<<"+", "1">>) }

\* The fields joined by '.': every string is such a join, in one way.
RECURSIVE JoinDots(_)
JoinDots(fs) ==
    IF Len(fs) = 1 THEN fs[1]
    ELSE fs[1] \o <<B(".")>> \o JoinDots(Tail(fs))

Years  == {0, 1, 99, 100, 1936, 9999, 10000}
Months == {0, 1, 12, 99, 100, 255}
Hours  == {None, Some(0), Some(6), Some(99), Some(100), Some(255)}

DateInputs ==
    {[k |-> "content", fields |-> fs] : fs \in SeqsUpTo(DateFields, MaxFields) \ {<<>>}}
      \cup {[k |-> "date", d |-> Date(y, m, d, h)] :
              y \in Years, m \in Months, d \in {1, 100}, h \in Hours}

Quoted(s) == <<B("\"")>> \o s \o <<B("\"")>>

\* The node the grammar gives a single value token.
ValueTokenNode(tok) ==
    IF tok # <<>> /\ tok[1] = B("\"") THEN StringNode(tok) ELSE WordNode(tok)

\* parse_atom on the quoted string whose content is the join of din.fields
ParseQuotedString ==
    /\ dop = "input" /\ din.k = "content"
    /\ dop' = "parsed"
    /\ dout' = parse_atom(StringNode(Quoted(JoinDots(din.fields))))
    /\ UNCHANGED <<scanVars, din, codecVars, wrapVars, pipeVars>>

\* serialize_atom and serialize_key of the Date din.d
SerializeDate ==
    /\ dop = "input" /\ din.k = "date"
    /\ dop' = "serialized"
    /\ dout' = [t |-> "Text", value |-> serialize_atom(AtomDate(din.d)),
                key |-> serialize_key(AtomDate(din.d))]
    /\ UNCHANGED <<scanVars, din, codecVars, wrapVars, pipeVars>>

\* parse_atom on the text serialize_atom wrote for the Date
ReparseDate ==
    /\ dop = "serialized"
    /\ dop' = "reparsed"
    /\ dout' = parse_atom(ValueTokenNode(dout.value))
    /\ UNCHANGED <<scanVars, din, codecVars, wrapVars, pipeVars>>

InitDate ==
    /\ dop = "input" /\ din \in DateInputs /\ dout = Idle
    /\ CodecIdle /\ WrapIdle /\ PipeIdle /\ ScanIdle

NextDate ==
    \/ ParseQuotedString
    \/ SerializeDate
    \/ ReparseDate

SpecDate == InitDate /\ [][NextDate]_vars

----------------------------------------------------------------------------
(* The soft-wrap loop of serialize_value, one iteration at a time           *)

MaxElems == 3

ElemLens == {1, 59, 60, 61, 119, 120, 121}

\* The atoms an Array of the inputs holds: identifiers of the lengths above
\* and a string with a space in it.
ElemAtoms ==
    {AtomIdent(Repeat(B("a"), n)) : n \in ElemLens}
      \cup {AtomString(Bytes(<<"x", " ", "y">>))}

\* let rendered = ...; out.push_str("{\n"); let mut line = String::new();
ArrayOpen ==
    /\ wpc = "start"
    /\ wpc' = "loop"
    /\ rendered' = [i \in 1..Len(arr) |-> serialize_atom(arr[i])]
    /\ out' = Bytes(<<"{", "\n">>)
    /\ line' = <<>>
    /\ idx' = 0
    /\ UNCHANGED <<scanVars, arr, indent, lines, pending, codecVars, dateVars, pipeVars>>

\* One iteration of `for (idx, elem) in rendered.iter().enumerate()`.
ArrayElem ==
    /\ wpc = "loop" /\ idx < Len(rendered)
    /\ LET elem == rendered[idx + 1]
           st   == array_iter([out |-> out, line |-> line], elem, idx, Len(rendered), indent)
           wrap == WrapNeeded(line, elem)
           kept == IF wrap THEN <<>> ELSE pending
           done == IF wrap THEN Append(lines, pending) ELSE lines
       IN /\ out' = st.out
          /\ line' = st.line
          /\ pending' = Append(kept, elem)
          /\ lines' = IF idx = Len(rendered) - 1 THEN Append(done, Append(kept, elem))
                      ELSE done
    /\ idx' = idx + 1
    /\ UNCHANGED <<scanVars, wpc, arr, indent, rendered, codecVars, dateVars, pipeVars>>

\* out.push_str(&" ".repeat(indent)); out.push_str("}\n");
ArrayClose ==
    /\ wpc = "loop" /\ idx = Len(rendered)
    /\ wpc' = "done"
    /\ out' = out \o Repeat(B(" "), indent) \o Bytes(<<"}", "\n">>)
    /\ UNCHANGED <<scanVars, arr, indent, rendered, idx, line, lines, pending,
                   codecVars, dateVars, pipeVars>>

InitWrap ==
    /\ wpc = "start" /\ arr \in SeqsUpTo(ElemAtoms, MaxElems) /\ indent \in {0, 4}
    /\ rendered = <<>> /\ idx = 0 /\ line = <<>> /\ out = <<>>
    /\ lines = <<>> /\ pending = <<>>
    /\ CodecIdle /\ DateIdle /\ PipeIdle /\ ScanIdle

NextWrap ==
    \/ ArrayOpen
    \/ ArrayElem
    \/ ArrayClose

SpecWrap == InitWrap /\ [][NextWrap]_vars

\* The same loop on Arrays that may also hold the identifier of length 0
\* (Atom::Ident(String::new())), which is rendered as the empty text.
InitWrapAny ==
    /\ wpc = "start"
    /\ arr \in SeqsUpTo(ElemAtoms \cup {AtomIdent(<<>>)}, MaxElems)
    /\ indent \in {0, 4}
    /\ rendered = <<>> /\ idx = 0 /\ line = <<>> /\ out = <<>>
    /\ lines = <<>> /\ pending = <<>>
    /\ CodecIdle /\ DateIdle /\ PipeIdle /\ ScanIdle

SpecWrapAny == InitWrapAny /\ [][NextWrap]_vars

----------------------------------------------------------------------------
(* Documents built by the caller and written by Script::serialize (lib.rs)  *)

MaxAstDepth == 2

K_k == AtomIdent(Bytes(<<"k">>))

\* The contents of the String atoms: a space, a double quote, a backslash,
\* a line feed, and the empty string.
AstStrings ==
    { Bytes(<<"x", " ", "y">>), Bytes(<<"a", "\"", "b">>), Bytes(<<"a", "\\", "b">>),
      Bytes(<<"a", "\n", "b">>), <<>> }

AstAtoms ==
    {AtomString(s) : s \in AstStrings}
      \cup { AtomIdent(Bytes(<<"a">>)), AtomNumber(parse_f64(W_num)), AtomBool(TRUE),
             AtomBool(FALSE), AtomDate(Date(1936, 1, 1, None)),
             AtomDate(Date(1936, 1, 1, Some(6))) }

\* Arrays: empty, of one element, of two elements on one line, of two
\* elements that do not fit on one line.
AstArrays ==
    { ValueArray(<<>>),
      ValueArray(<<AtomIdent(Bytes(<<"a">>))>>),
      ValueArray(<<AtomIdent(Bytes(<<"a">>)), AtomString(Bytes(<<"x", " ", "y">>))>>),
      ValueArray(<<AtomIdent(Repeat(B("e"), 119)), AtomIdent(Repeat(B("e"), 2))>>) }

\* The Blocks around a value: empty, holding it as the value of a Pair, as a
\* plain value, and between a plain atom and a comment.
BlocksAround(v) ==
    { ValueBlock(<<>>),
      ValueBlock(<<ItemPair(K_k, "Eq", v)>>),
      ValueBlock(<<ItemValue(v)>>),
      ValueBlock(<<ItemValue(ValueAtom(AtomIdent(Bytes(<<"a">>)))),
                   ItemPair(K_k, "Eq", v),
                   ItemComment(Bytes(<<"#", "c">>))>>) }

\* The values nested at most n Blocks deep.
RECURSIVE AstValues(_)
AstValues(n) ==
    IF n = 0 THEN {ValueAtom(a) : a \in AstAtoms} \cup AstArrays
    ELSE LET below == AstValues(n - 1) IN
         below \cup UNION {BlocksAround(v) : v \in below}

AstKeys ==
    { K_k, AtomNumber(parse_f64(W_num)), AtomDate(Date(1936, 1, 1, None)),
      AtomDate(Date(1936, 1, 1, Some(6))) }

Operators == {"Eq", "Le", "Ge", "Lt", "Gt"}

\* The documents (Vec<Item>) handed to Script::serialize.
AstInputs ==
    {<<>>}
      \cup {<<ItemPair(K_k, "Eq", v)>> : v \in AstValues(MaxAstDepth)}
      \cup {<<ItemValue(v)>> : v \in AstValues(MaxAstDepth)}
      \cup {<<ItemPair(k, o, ValueAtom(AtomIdent(Bytes(<<"a">>))))>> :
              k \in AstKeys, o \in Operators}
      \cup {<<ItemComment(Bytes(<<"#", "c">>)), ItemPair(K_k, "Eq", v)>> : v \in AstArrays}

\* Script::serialize: serialize_file of the document the caller built.
ScriptSerialize ==
    /\ pc = "built" /\ result.t = "Ok"
    /\ pc' = "written"
    /\ text' = serialize_file(result.v)
    /\ UNCHANGED <<scanVars, tree, result, round, canon, codecVars, dateVars, wrapVars>>

InitAst ==
    /\ pc = "built" /\ text = <<>> /\ tree = Idle /\ result \in {Ok(d) : d \in AstInputs}
    /\ round = 0 /\ canon = <<>>
    /\ CodecIdle /\ DateIdle /\ WrapIdle /\ ScanIdle

NextAst == ScriptSerialize

SpecAst == InitAst /\ [][NextAst]_vars

----------------------------------------------------------------------------
(* Claims about the codec                                                   *)

\* C4: for every string s, unescape_string(escape_string(s)) = s, and a
\* localisation value written by serialize_pair and read back by parse_pair
\* is the value that was written.
C4_EscapeRoundTrip ==
    /\ cop = "escape" => cout.t = "Ok"
    /\ cop = "roundtrip" => cout = Ok(cin)
    /\ cop = "loc_written" => cout.t = "Ok"
    /\ cop = "loc_read" => cout = Ok(cin)

\* A string holding a backslash, the letter n and a two-byte character has
\* gone through escape_string and unescape_string.
C4_Witness ==
    /\ cop = "roundtrip"
    /\ cin = <<B("\\"), B("n"), 195, 169>>
    /\ cout = Ok(cin)

\* C5: unescape_string never fails: it returns a string for every input.
C5_UnescapeNeverFails ==
    cop = "unescape" => cout.t = "Ok"

----------------------------------------------------------------------------
(* Claims about parse_block                                                 *)

\* The nodes of the parse tree under (and including) n.
RECURSIVE NodesOf(_)
NodesOf(n) == {n} \cup UNION {NodesOf(n.inner[i]) : i \in 1..Len(n.inner)}

BlockNodes(n) == {b \in NodesOf(n) : b.rule = "block"}

\* The children of a brace group, each as parse_item returns it.
ParsedChildren(b) == [i \in 1..Len(BodyItems(b)) |-> parse_item(BodyItems(b)[i])]

\* The atoms of the plain values among the children, in order.
RECURSIVE PlainAtoms(_)
PlainAtoms(ch) ==
    IF ch = <<>> THEN <<>>
    ELSE (IF IsPlainAtom(Head(ch)) THEN <<Head(ch).v.a>> ELSE <<>>) \o PlainAtoms(Tail(ch))

HasPair(ch) == \E i \in 1..Len(ch) : ch[i].t = "Pair"

Parsed == pc = "parsed" /\ tree.t = "Ok" /\ result.t = "Ok"

\* C1: for every brace group whose children include a Pair, parse_block
\* returns a Block holding all the children of the group (pairs, plain
\* values, comments, nested groups) in their original order.
C1_BlockKeepsAllChildren ==
    Parsed =>
      \A b \in BlockNodes(tree.v) :
        HasPair(ParsedChildren(b)) => parse_block(b) = ValueBlock(ParsedChildren(b))

\* C2: for every brace group none of whose children is a Pair, parse_block
\* returns an Array holding exactly the plain values of the group in their
\* original order, also next to a comment or a nested group.
C2_NoPairGivesArray ==
    Parsed =>
      \A b \in BlockNodes(tree.v) :
        ~HasPair(ParsedChildren(b)) =>
          parse_block(b) = ValueArray(PlainAtoms(ParsedChildren(b)))

----------------------------------------------------------------------------
(* Claims about parse_str and serialize_file                                *)

\* C3: the text serialize_file writes for a parsed document is accepted by
\* parse_str and is written again unchanged by a second parse and serialize.
C3_SerializeParseIdempotent ==
    /\ (pc = "parsed" /\ round = 1) => result.t = "Ok"
    /\ round = 2 => text = canon

\* C6: parse_str returns Ok(document) or Err(message) for every text and
\* ends in no other way; on a grammar failure it returns no item list.
C6_ParseStrReturnsResult ==
    pc = "parsed" =>
      /\ result.t \in {"Ok", "Err"}
      /\ tree.t = "Err" => result = GrammarErr

\* The nesting depth of the brace groups under n.
RECURSIVE BlockDepth(_)
BlockDepth(n) ==
    LET below == {BlockDepth(n.inner[i]) : i \in 1..Len(n.inner)} \cup {0}
        deepest == CHOOSE x \in below : \A y \in below : y <= x
    IN IF n.rule = "block" THEN deepest + 1 ELSE deepest

\* The maximum nesting depth an implementation is to enforce.
MaxNestingDepth == 2

\* C7: a document whose brace groups nest deeper than the maximum fails
\* with a resource-exhaustion error, distinct from a grammar error.
C7_NestingDepthEnforced ==
    (pc = "parsed" /\ tree.t = "Ok" /\ BlockDepth(tree.v) > MaxNestingDepth)
      => result.t = "ResourceError"

----------------------------------------------------------------------------
(* Claims about dates                                                       *)

\* The fields are those of a date: 3 or 4 of them, the first of 3 or 4
\* ASCII digits, the others of 1 or 2.
DateShaped(fs) ==
    /\ Len(fs) \in {3, 4}
    /\ Len(fs[1]) \in {3, 4} /\ \A j \in 1..Len(fs[1]) : fs[1][j] \in 48..57
    /\ \A i \in 2..Len(fs) :
         Len(fs[i]) \in {1, 2} /\ \A j \in 1..Len(fs[i]) : fs[i][j] \in 48..57

\* C8: the content of a quoted string is parsed as a Date exactly if it is
\* date shaped, the Date then carries the values of the fields (an hour
\* exactly if there are 4), and any other content is parsed as a String.
C8_DateHeuristic ==
    dop = "parsed" =>
      LET fs == din.fields IN
      IF DateShaped(fs)
      THEN dout = AtomDate(Date(DigitsValue(fs[1]), DigitsValue(fs[2]), DigitsValue(fs[3]),
                                IF Len(fs) = 4 THEN Some(DigitsValue(fs[4])) ELSE None))
      ELSE dout = AtomString(JoinDots(fs))

\* A quoted year.month.day.hour has been parsed as a Date with an hour.
C8_Witness ==
    /\ dop = "parsed" /\ Len(din.fields) = 4
    /\ dout.t = "Date" /\ dout.d.h # None /\ dout.d.y = 1936

\* The text written for the Date, as value and as key: unquoted y.m.d
\* without an hour, quoted "y.m.d.h" with one.
DateFormsOk ==
    dop = "serialized" =>
      LET v      == dout.value
          d      == din.d
          quoted == v[1] = B("\"") /\ v[Len(v)] = B("\"")
          body   == IF quoted THEN SubSeq(v, 2, Len(v) - 1) ELSE v
          parts  == Split(body, B("."))
      IN /\ dout.key = v
         /\ quoted <=> d.h # None
         /\ Len(parts) = IF d.h = None THEN 3 ELSE 4
         /\ \A i \in 1..Len(parts) : parts[i] # <<>> /\ all_digits(parts[i])
         /\ DigitsValue(parts[1]) = d.y
         /\ DigitsValue(parts[2]) = d.m
         /\ DigitsValue(parts[3]) = d.d
         /\ d.h # None => DigitsValue(parts[4]) = d.h[1]

\* C9 as claimed: the formats above, and parsing the quoted form gives back
\* a Date with the same year, month, day and hour.
C9_QuotedDateReparsed ==
    /\ DateFormsOk
    /\ (dop = "reparsed" /\ din.d.h # None) => dout = AtomDate(din.d)

\* The Dates the heuristic recognises in their quoted form.
InHeuristicRange(d) ==
    d.y >= 100 /\ d.y <= 9999 /\ d.m <= 99 /\ d.d <= 99 /\ d.h[1] <= 99

\* C9 as amended: the formats above; parsing the quoted form gives back the
\* same Date if the year has 3 or 4 digits and month, day and hour have at
\* most 2, and a String otherwise.
C9_QuotedDateReparsedInRange ==
    /\ DateFormsOk
    /\ (dop = "reparsed" /\ din.d.h # None) =>
         IF InHeuristicRange(din.d) THEN dout = AtomDate(din.d)
         ELSE dout.t = "String"

\* The Date 1936.1.1 with hour 6 has been written and parsed again.
C9_Witness ==
    /\ dop = "reparsed" /\ din.d = Date(1936, 1, 1, Some(6))
    /\ dout = AtomDate(din.d)

----------------------------------------------------------------------------
(* Claims about the soft wrap of an Array                                   *)

\* The elements of a line, separated by single spaces.
RECURSIVE JoinSpaces(_)
JoinSpaces(g) ==
    IF g = <<>> THEN <<>>
    ELSE IF Len(g) = 1 THEN g[1]
    ELSE g[1] \o <<B(" ")>> \o JoinSpaces(Tail(g))

\* Every line written holds a single element or is at most 120 long.
LinesWithinBudget ==
    \A i \in 1..Len(lines) : Len(lines[i]) = 1 \/ Len(JoinSpaces(lines[i])) <= 120

\* The text written is made of whole elements: each line is the indentation,
\* the elements of the line separated by spaces, and a line feed.
ElementsWhole ==
    wpc = "done" =>
      /\ Concat(lines) = rendered
      /\ out = Bytes(<<"{", "\n">>)
                 \o Concat([i \in 1..Len(lines) |->
                              Repeat(B(" "), indent + 2) \o JoinSpaces(lines[i]) \o <<B("\n")>>])
                 \o Repeat(B(" "), indent) \o Bytes(<<"}", "\n">>)

\* In an iteration a new line is started before the element exactly if the
\* pending line is not empty and its length + 1 + the element's exceeds 120.
WrapOnlyOverBudget ==
    (wpc = "loop" /\ idx' = idx + 1) =>
      LET elem == rendered[idx + 1] IN
      IF line # <<>> /\ Len(line) + 1 + Len(elem) > 120
      THEN line' = elem
      ELSE line' = (IF line = <<>> THEN elem ELSE line \o <<B(" ")>> \o elem)

\* C10: the elements of an Array are packed greedily under the budget of
\* 120: a new line starts only where the pending line is not empty and would
\* exceed it, every line holds a single element or is at most 120 long, and
\* no element is split across lines.
C10_GreedyWrap ==
    /\ [](LinesWithinBudget /\ ElementsWhole)
    /\ [][WrapOnlyOverBudget]_vars

\* An Array has been written on several lines, one of them holding several
\* elements and one a single element longer than the budget.
C10_Witness ==
    /\ wpc = "done" /\ Len(lines) >= 2
    /\ \E i \in 1..Len(lines) : Len(lines[i]) >= 2
    /\ \E i \in 1..Len(lines) : Len(lines[i]) = 1 /\ Len(lines[i][1]) > 120

----------------------------------------------------------------------------
(* Claims about the serializer, on documents built by the caller            *)

\* The value an item holds; a comment holds none (the empty Array has no atom).
ValueOfItem(it) ==
    CASE it.t = "Pair" -> it.value
      [] it.t = "ValueItem" -> it.v
      [] OTHER -> ValueArray(<<>>)

\* The atoms under a value.
RECURSIVE AtomsOfValue(_)
AtomsOfValue(v) ==
    CASE v.t = "Atom" -> {v.a}
      [] v.t = "Array" -> {v.arr[i] : i \in 1..Len(v.arr)}
      [] v.t = "Block" ->
           UNION {AtomsOfValue(ValueOfItem(v.items[i])) : i \in 1..Len(v.items)}

AtomsOfFile(items) == AtomsOfValue(ValueBlock(items))

\* C11: every Atom::String with content s is written as a double quote,
\* escape_string(s) and a double quote: as an atom anywhere in the document,
\* and as the whole line of a document made of that one value.
C11_StringsEscaped ==
    pc = "written" =>
      /\ \A a \in AtomsOfFile(result.v) :
           a.t = "String" =>
             /\ escape_string(a.s).t = "Ok"
             /\ serialize_atom(a) = Quoted(escape_string(a.s).v)
      /\ \A s \in AstStrings :
           result.v = <<ItemValue(ValueAtom(AtomString(s)))>>
             => text = Quoted(escape_string(s).v) \o <<B("\n")>>

\* The items of a document with the indent each is written at: the items of
\* the file at 0, the children of a Block 4 further than the item holding it.
RECURSIVE ItemsUnder(_, _)
ItemsUnder(items, ind) ==
    UNION { {[it |-> items[i], ind |-> ind]}
              \cup (IF ValueOfItem(items[i]).t = "Block"
                    THEN ItemsUnder(ValueOfItem(items[i]).items, ind + 4)
                    ELSE {})
            : i \in 1..Len(items) }

OpenLine == Bytes(<<"{", "\n">>)
CloseLine(ind) == Repeat(B(" "), ind) \o Bytes(<<"}", "\n">>)

\* C12: serialize_file returns a string for every document, whatever the
\* nesting of Pair, ValueItem, Comment, Atom, Array and Block, and an empty
\* Array is written as the line of the opening brace followed directly by
\* the line of the closing brace at the indent of its item.
C12_SerializeTotal ==
    pc = "written" =>
      /\ text \in Seq(0..255)
      /\ \A r \in ItemsUnder(result.v, 0) :
           /\ serialize_item(r.it, r.ind) \in Seq(0..255)
           /\ (r.it.t = "Pair" /\ r.it.value = ValueArray(<<>>)) =>
                serialize_item(r.it, r.ind)
                  = Repeat(B(" "), r.ind) \o serialize_key(r.it.key) \o <<B(" ")>>
                      \o OperatorText(r.it.op) \o <<B(" ")>>
                      \o OpenLine \o CloseLine(r.ind)
           /\ (r.it.t = "ValueItem" /\ r.it.v = ValueArray(<<>>)) =>
                serialize_item(r.it, r.ind)
                  = Repeat(B(" "), r.ind) \o OpenLine \o CloseLine(r.ind) \o <<B("\n")>>
      /\ result.v = <<ItemPair(K_k, "Eq", ValueArray(<<>>))>>
           => text = Bytes(<<"k", " ", "=", " ">>) \o OpenLine \o CloseLine(0)

\* A document holding an empty Array as the value of a Pair inside a Block
\* has been written: the braces of the Array are on two lines, the second
\* at the indent of the Pair.
C12_Witness ==
    /\ pc = "written"
    /\ result.v = <<ItemPair(K_k, "Eq", ValueBlock(<<ItemPair(K_k, "Eq", ValueArray(<<>>))>>))>>
    /\ text = Bytes(<<"k", " ", "=", " ">>) \o OpenLine
                \o Repeat(B(" "), 4) \o Bytes(<<"k", " ", "=", " ">>) \o OpenLine
                \o CloseLine(4) \o CloseLine(0)

\* The lines of a text, each without the line feed that ends it.
TextLines(t) ==
    LET parts == Split(t, B("\n")) IN SubSeq(parts, 1, Len(parts) - 1)

\* The number of spaces a line starts with.
RECURSIVE LeadingSpaces(_)
LeadingSpaces(ln) ==
    IF ln # <<>> /\ Head(ln) = B(" ") THEN 1 + LeadingSpaces(Tail(ln)) ELSE 0

\* A line that opens a group ends with the opening brace; a line that closes
\* one is the closing brace alone after its indentation.
IsOpener(ln) == ln # <<>> /\ ln[Len(ln)] = B("{")
IsCloser(ln) == ln = Repeat(B(" "), LeadingSpaces(ln)) \o <<B("}")>>

\* From line k on, with the indentations of the lines that opened the groups
\* not yet closed (innermost first): every closing brace is at the
\* indentation of the line that opened its group, every other line is
\* further in than the line that opened the group it is in, and every group
\* is closed at the end.
RECURSIVE Nesting(_, _, _)
Nesting(lns, k, open) ==
    IF k > Len(lns) THEN open = <<>>
    ELSE IF IsCloser(lns[k])
         THEN /\ open # <<>>
              /\ LeadingSpaces(lns[k]) = Head(open)
              /\ Nesting(lns, k + 1, Tail(open))
    ELSE /\ open = <<>> \/ LeadingSpaces(lns[k]) > Head(open)
         /\ Nesting(lns, k + 1,
                    IF IsOpener(lns[k]) THEN <<LeadingSpaces(lns[k])>> \o open ELSE open)

\* The positions of the lines of a kind.
Openers(lns) == {k \in 1..Len(lns) : IsOpener(lns[k])}
Closers(lns) == {k \in 1..Len(lns) : IsCloser(lns[k])}

\* A document made of a Pair whose value is a Block holding a Pair whose
\* value is a Block holding a Pair whose value is an Array.
IsNest(doc) ==
    /\ Len(doc) = 1 /\ doc[1].t = "Pair" /\ doc[1].value.t = "Block"
    /\ \E i \in 1..Len(doc[1].value.items) :
         LET inner == doc[1].value.items[i] IN
         /\ inner.t = "Pair" /\ inner.value.t = "Block"
         /\ \E j \in 1..Len(inner.value.items) :
              /\ inner.value.items[j].t = "Pair"
              /\ inner.value.items[j].value.t = "Array"

\* C14: a Block holding a Block holding an Array, each the value of a Pair,
\* is written with the outer pair line, the inner pair line and the line of
\* the Array's pair at strictly increasing indentation, the element lines
\* (as every line inside a group) further in than the line that opened
\* their group, every closing brace on a line of its own at the indentation
\* of the line that opened its group, and as many closing braces as opening
\* braces.
C14_NestingIndentation ==
    (pc = "written" /\ IsNest(result.v)) =>
      LET lns == TextLines(text)
          ops == Openers(lns)
      IN /\ Nesting(lns, 1, <<>>)
         /\ Cardinality(Closers(lns)) = Cardinality(ops)
         /\ Cardinality(ops) = 3
         /\ \A k1, k2 \in ops : k1 < k2 => LeadingSpaces(lns[k1]) < LeadingSpaces(lns[k2])

\* Such a document has been written with the Array on two element lines:
\* three opening lines, two element lines and three closing lines.
C14_Witness ==
    /\ pc = "written"
    /\ result.v = <<ItemPair(K_k, "Eq",
                      ValueBlock(<<ItemPair(K_k, "Eq",
                        ValueBlock(<<ItemPair(K_k, "Eq",
                          ValueArray(<<AtomIdent(Repeat(B("e"), 119)),
                                       AtomIdent(Repeat(B("e"), 2))>>))>>))>>))>>
    /\ Len(TextLines(text)) = 8
    /\ [k \in 1..8 |-> LeadingSpaces(TextLines(text)[k])] = <<0, 4, 8, 10, 10, 8, 4, 0>>

----------------------------------------------------------------------------
(* Claims about what the soft wrap keeps                                    *)

\* The element lines of the text written for an Array: the lines between the
\* line of the opening brace and the line of the closing brace.
ElementLines == LET lns == TextLines(out) IN SubSeq(lns, 2, Len(lns) - 1)

\* Every element line starts with the indentation of the elements.
ElementLinesIndented ==
    \A k \in 1..Len(ElementLines) :
      /\ Len(ElementLines[k]) >= indent + 2
      /\ SubSeq(ElementLines[k], 1, indent + 2) = Repeat(B(" "), indent + 2)

\* The element lines read top to bottom, without their indentation, joined
\* by single spaces: the elements of the lines with single spaces between.
ElementsRead ==
    JoinSpaces([k \in 1..Len(ElementLines) |->
                  SubSeq(ElementLines[k], indent + 3, Len(ElementLines[k]))])

----------------------------------------------------------------------------
(* The scan of parse_block over the children of a brace group, one child    *)
(* at a time                                                                *)

\* The brace groups scanned: those of the input documents made of one group,
\* and one with a child on which parse_item panics.
ScanNodes ==
    UNION {BlockNodes(HoiParser_parse(g).v) :
             g \in Groups \cup {Spaced(<<W_open, W_a, W_big, W_a, W_close>>)}}

\* let mut items = Vec::new(); let mut atoms = Vec::new(); let mut only_atoms = true;
BlockEnter ==
    /\ spc = "start"
    /\ spc' = "scan"
    /\ sk' = 0
    /\ scan' = [items |-> <<>>, atoms |-> <<>>, only_atoms |-> TRUE, t |-> "Scan"]
    /\ UNCHANGED <<snode, sval, codecVars, dateVars, wrapVars, pipeVars>>

\* One iteration of `for it in child.into_inner()`: parse_item, then the match.
BlockChild ==
    /\ spc = "scan" /\ sk < Len(BodyItems(snode))
    /\ LET parsed == parse_item(BodyItems(snode)[sk + 1]) IN
       IF parsed.t = "Panic"
       THEN spc' = "done" /\ sval' = Panic /\ scan' = scan
       ELSE spc' = spc /\ sval' = sval /\ scan' = block_scan(scan, parsed)
    /\ sk' = sk + 1
    /\ UNCHANGED <<snode, codecVars, dateVars, wrapVars, pipeVars>>

\* if only_atoms { Value::Array(atoms) } else { Value::Block(items) }
BlockReturn ==
    /\ spc = "scan" /\ sk = Len(BodyItems(snode))
    /\ spc' = "done"
    /\ sval' = block_result(scan)
    /\ UNCHANGED <<snode, sk, scan, codecVars, dateVars, wrapVars, pipeVars>>

InitScan ==
    /\ spc = "start" /\ snode \in ScanNodes /\ sk = 0 /\ scan = Idle /\ sval = Idle
    /\ CodecIdle /\ DateIdle /\ WrapIdle /\ PipeIdle

NextScan ==
    \/ BlockEnter
    \/ BlockChild
    \/ BlockReturn

SpecScan == InitScan /\ [][NextScan]_vars

----------------------------------------------------------------------------
(* Claims about the scan of parse_block                                     *)

\* A Pair is among the children scanned so far.
PairSeen == \E i \in 1..sk : parse_item(BodyItems(snode)[i]).t = "Pair"

\* The flag is cleared once a Pair has been scanned, and the value returned
\* for a group holding a Pair is a Block.
PairForcesBlock ==
    /\ (spc = "scan" /\ PairSeen) => ~scan.only_atoms
    /\ (spc = "done" /\ sval.t # "Panic" /\ HasPair(ParsedChildren(snode)))
         => sval.t = "Block"

\* No iteration of the scan sets the flag after it has been cleared.
FlagNeverSetBack ==
    (spc = "scan" /\ ~scan.only_atoms) => ~scan'.only_atoms

\* C13: the classification of a brace group is monotonic over the single
\* scan of its children: once a Pair has been scanned the value returned is
\* a Block whatever children follow, and only_atoms is never set back after
\* it has been cleared.
C13_ClassificationMonotonic ==
    /\ []PairForcesBlock
    /\ [][FlagNeverSetBack]_vars

\* A group whose first child is a Pair and whose later children are all
\* plain values has been scanned to the end and returned as a Block.
C13_Witness ==
    /\ spc = "done" /\ sval.t = "Block"
    /\ Len(ParsedChildren(snode)) >= 3
    /\ ParsedChildren(snode)[1].t = "Pair"
    /\ \A i \in 2..Len(ParsedChildren(snode)) : IsPlainAtom(ParsedChildren(snode)[i])

====
